---- MODULE Spec2Model ----
(***************************************************************************)
(* A model of rust_calculator (src/src/main.rs): the Lexer, the recursive  *)
(* descent Interpreter and the read-evaluate-print loop of main.           *)
(*                                                                         *)
(* A character is a one-element string ("2", "+", " ", ...), or a name for *)
(* a character outside ASCII ("nbsp", "eacute").  A String is its          *)
(* characters and its length in bytes, which is what String::len returns.  *)
(* Option<char>::None is the value None.  Rust indexes from 0, so          *)
(* text.chars().nth(p) is text.chars[p + 1] here.                          *)
(*                                                                         *)
(* Values stay far below 2^31 within the bounds of the model, so the       *)
(* overflow of i64 (a panic in a debug build, wrapping in a release build) *)
(* and of the literal parse are outside what is modelled.                  *)
(***************************************************************************)
EXTENDS Integers, Sequences, FiniteSets, TLC

VARIABLES
    pc,             \* where main (or the caller of the Lexer) stands
    formula,        \* main: the line read_line stored
    lexer,          \* the Lexer: [text, pos, current_char]
    current_token,  \* Interpreter.current_token
    result,         \* main: the value interpreter.expr() returned
    stdout,         \* the number this iteration of the loop printed, if any
    panic,          \* the panic that ended the process, if any
    ret,            \* the last Lexer call and what it returned
    src             \* how the line was written: free text, or an expression tree

vars == <<pc, formula, lexer, current_token, result, stdout, panic, ret, src>>

(***************************************************************************)
(* Bounds of the model.                                                    *)
(***************************************************************************)
MaxLen == 3        \* longest free-text line typed (before its newline)
MaxLexLen == 3     \* longest text handed to a Lexer driven call by call
MaxOverrun == 2    \* direct advance() calls allowed past the end of the text
MaxOps == 2        \* most operators in a generated expression tree

(***************************************************************************)
(* Characters.                                                             *)
(***************************************************************************)
None == "None"
Digits == {"0", "1", "2", "3", "4", "5", "6", "7", "8", "9"}
DigitVal(c) ==
    CASE c = "0" -> 0 [] c = "1" -> 1 [] c = "2" -> 2 [] c = "3" -> 3
      [] c = "4" -> 4 [] c = "5" -> 5 [] c = "6" -> 6 [] c = "7" -> 7
      [] c = "8" -> 8 [] c = "9" -> 9

\* char::is_ascii_digit
is_ascii_digit(c) == c \in Digits

\* faulty: only the blank counts as whitespace
is_blank(c) == c = " "

\* char::is_whitespace: the Unicode White_Space characters of the model
is_whitespace(c) == c \in {" ", "\n", "\t", "nbsp"}

\* the UTF-8 length of a character: String::len counts bytes, not characters
Utf8Len(c) == IF c \in {"nbsp", "eacute"} THEN 2 ELSE 1

RECURSIVE ByteLen(_)
ByteLen(chars) ==
    IF chars = <<>> THEN 0 ELSE Utf8Len(Head(chars)) + ByteLen(Tail(chars))

\* a String holding the characters `chars`
String(chars) == [chars |-> chars, len |-> ByteLen(chars)]

\* text.chars().nth(p)
nth(text, p) == IF p < Len(text.chars) THEN text.chars[p + 1] ELSE None

(***************************************************************************)
(* Token (main.rs 4-15).  Integer carries its value; the other variants    *)
(* compare by tag, which a value of 0 for all of them gives.               *)
(***************************************************************************)
Tok(t) == [type |-> t, value |-> 0]
IntegerTok(v) == [type |-> "Integer", value |-> v]
NoToken == Tok("NoToken")

(***************************************************************************)
(* Lexer (main.rs 17-97).                                                  *)
(***************************************************************************)
create_lexer(text) == [text |-> text, pos |-> 0, current_char |-> nth(text, 0)]

\* advance: pos += 1, then current_char from the comparison with the BYTE
\* length.  On an empty text `len() - 1` underflows usize: a debug build
\* panics there (advance_underflows), a release build wraps to usize::MAX
\* and takes the else branch.  Either way the fields end as computed here.
advance_underflows(l) == l.text.len = 0

\* faulty: past the end, current_char keeps the last character
advance_stale(l) ==
    [l EXCEPT !.pos = l.pos + 1,
              !.current_char = IF l.pos + 1 > l.text.len - 1
                               THEN l.current_char
                               ELSE nth(l.text, l.pos + 1)]

advance(l) ==
    LET p == l.pos + 1 IN
    [l EXCEPT !.pos = p,
              !.current_char = IF l.text.len > 0 /\ p > l.text.len - 1
                               THEN None
                               ELSE nth(l.text, p)]

RECURSIVE skip_whitespaces(_)
skip_whitespaces(l) ==
    IF l.current_char # None /\ is_whitespace(l.current_char)
    THEN skip_whitespaces(advance(l))
    ELSE l

\* str::parse::<i64> of a string of ASCII digits; the empty string is an Err
RECURSIVE parse_digits(_, _)
parse_digits(s, acc) ==
    IF s = <<>> THEN acc
    ELSE parse_digits(Tail(s), 10 * acc + DigitVal(Head(s)))

parse(s) == [ok |-> s # <<>>, value |-> parse_digits(s, 0)]

\* integer: collects the run of digits at the cursor, then parse().unwrap()
RECURSIVE integer_loop(_, _)
integer_loop(l, res) ==
    IF l.current_char # None /\ is_ascii_digit(l.current_char)
    THEN integer_loop(advance(l), Append(res, l.current_char))
    ELSE [lexer |-> l, digits |-> res]

integer(l) ==
    LET r == integer_loop(l, <<>>)
        p == parse(r.digits) IN
    [lexer |-> r.lexer, ok |-> p.ok, value |-> p.value]

\* Result<Token, ErrorKind>, with the Lexer the call leaves
NoError == [kind |-> "none"]
InvalidData == [kind |-> "InvalidData"]
Ok(l, tok) == [lexer |-> l, ok |-> TRUE, token |-> tok, err |-> NoError]
Err(l, e) == [lexer |-> l, ok |-> FALSE, token |-> NoToken, err |-> e]

\* the arms of the match on current_char
SingleChars == {"+", "-", "*", "/", "(", ")"}
single_char_token(c) ==
    CASE c = "+" -> Tok("Plus")
      [] c = "-" -> Tok("Minus")
      [] c = "*" -> Tok("Mul")
      [] c = "/" -> Tok("Div")
      [] c = "(" -> Tok("Lparen")
      [] c = ")" -> Tok("Rparen")

\* faulty: at the end of the text the cursor still moves on
RECURSIVE get_next_token_eager(_)
get_next_token_eager(l) ==
    LET c == l.current_char IN
    IF c = None THEN Ok(advance(l), Tok("Eof"))
    ELSE IF is_whitespace(c) THEN get_next_token_eager(skip_whitespaces(l))
    ELSE IF is_ascii_digit(c) THEN
        LET r == integer(l) IN Ok(r.lexer, IntegerTok(r.value))
    ELSE IF c \in SingleChars THEN Ok(advance(l), single_char_token(c))
    ELSE Err(l, InvalidData)

RECURSIVE get_next_token(_)
get_next_token(l) ==
    LET c == l.current_char IN
    IF c = None THEN Ok(l, Tok("Eof"))
    ELSE IF is_whitespace(c) THEN get_next_token(skip_whitespaces(l))
    ELSE IF is_ascii_digit(c) THEN
        LET r == integer(l) IN Ok(r.lexer, IntegerTok(r.value))
    ELSE IF c \in SingleChars THEN Ok(advance(l), single_char_token(c))
    ELSE Err(l, InvalidData)

(***************************************************************************)
(* Interpreter (main.rs 99-185).  A rule takes the interpreter's state and *)
(* returns the state it leaves: the Lexer, current_token, the panic that   *)
(* unwound the call (NoPanic if none) and the value returned.              *)
(***************************************************************************)
NoPanic == "none"
EatPanic == "Error parsing the string (probably an invalid character)"
FactorPanic == "Error in the factor rule"
CreatePanic == "Error in creating the interpreter"
DivPanic == "attempt to divide by zero"
UnwrapPanic == "called Result::unwrap on an Err value"
UnderflowPanic == "attempt to subtract with overflow"

Interp(l, tok) == [lexer |-> l, current_token |-> tok, panic |-> NoPanic, value |-> 0]

Abs(n) == IF n < 0 THEN -n ELSE n

\* faulty: the quotient rounded down
i64_div_floor(a, b) ==
    IF b > 0 THEN a \div b ELSE (-a) \div (-b)

\* i64 `/` with a non-zero divisor: the quotient rounded toward zero
i64_div(a, b) ==
    IF (a < 0) = (b < 0) THEN Abs(a) \div Abs(b) ELSE -(Abs(a) \div Abs(b))

\* faulty: a zero divisor yields 0
div_unchecked(i, lhs, rhs) ==
    [i EXCEPT !.value = IF rhs = 0 THEN 0 ELSE i64_div(lhs, rhs)]

\* `result /= rhs`: Rust panics on a zero divisor
div_assign(i, lhs, rhs) ==
    IF rhs = 0 THEN [i EXCEPT !.panic = DivPanic]
    ELSE [i EXCEPT !.value = i64_div(lhs, rhs)]

eat(i) ==
    LET r == get_next_token(i.lexer) IN
    IF r.ok THEN [i EXCEPT !.lexer = r.lexer, !.current_token = r.token]
    ELSE [i EXCEPT !.lexer = r.lexer, !.panic = EatPanic]

\* a panic unwinds through every caller: the rest of a rule runs only on a
\* state that carries no panic
and_then(i, rest(_)) == IF i.panic # NoPanic THEN i ELSE rest(i)

RECURSIVE factor(_), term(_), term_loop(_), expr(_), expr_loop(_)

\* factor : INTEGER | LPAREN expr RPAREN
factor(i) ==
    CASE i.current_token.type = "Integer" ->
            [eat(i) EXCEPT !.value = i.current_token.value]
      [] i.current_token = Tok("Lparen") ->
            and_then(and_then(eat(i), expr), eat)
      [] OTHER -> [i EXCEPT !.panic = FactorPanic]

\* the while loop of term; i.value is `result`
term_loop(i) ==
    CASE i.current_token = Tok("Mul") ->
            and_then(and_then(eat(i), factor),
                     LAMBDA f : term_loop([f EXCEPT !.value = i.value * f.value]))
      [] i.current_token = Tok("Div") ->
            and_then(and_then(and_then(eat(i), factor),
                              LAMBDA f : div_assign(f, i.value, f.value)),
                     term_loop)
      [] OTHER -> i

\* term : factor ((MUL | DIV) factor)*
term(i) == and_then(factor(i), term_loop)

\* the while loop of expr; i.value is `result`
expr_loop(i) ==
    CASE i.current_token = Tok("Plus") ->
            and_then(and_then(eat(i), term),
                     LAMBDA t : expr_loop([t EXCEPT !.value = i.value + t.value]))
      [] i.current_token = Tok("Minus") ->
            and_then(and_then(eat(i), term),
                     LAMBDA t : expr_loop([t EXCEPT !.value = i.value - t.value]))
      [] OTHER -> i

\* faulty: expr built on factor, so * and / are never folded first
expr_of_factors(i) == and_then(factor(i), expr_loop)

\* expr : term ((PLUS | MINUS) term)*
expr(i) == and_then(term(i), expr_loop)

\* create_interpreter: primes current_token, or panics
create_interpreter(l) ==
    LET r == get_next_token(l) IN
    IF r.ok THEN Interp(r.lexer, r.token)
    ELSE [Interp(r.lexer, NoToken) EXCEPT !.panic = CreatePanic]

(***************************************************************************)
(* The lines typed at the prompt.  A line is free text over Alphabet, one  *)
(* of the example lines of the documentation, or an expression tree        *)
(* written out by the grammar (Render), possibly followed by a token that  *)
(* cannot continue it.  src remembers which, for the properties.           *)
(***************************************************************************)
Alphabet == {"0", "2", "+", "-", "*", "/", "(", ")", " ", "&"}
LexAlphabet == {"2", "+", "(", " ", "nbsp", "&", "eacute"}

SeqsUpTo(S, n) == UNION {[1..k -> S] : k \in 0..n}

Texts == SeqsUpTo(Alphabet, MaxLen)
LexTexts == SeqsUpTo(LexAlphabet, MaxLexLen)

\* "7 + 3 * (10 / (12 / (3 + 1) - 1))", "8 / 4 / 2", ... character by character
ExNested == <<"7", " ", "+", " ", "3", " ", "*", " ", "(", "1", "0", " ", "/", " ", "(", "1", "2", " ", "/", " ", "(", "3", " ", "+", " ", "1", ")", " ", "-", " ", "1", ")", ")">>
ExDivChain == <<"8", " ", "/", " ", "4", " ", "/", " ", "2">>
ExSubChain == <<"2", " ", "-", " ", "3", " ", "-", " ", "4">>
ExNegDividend == <<"(", "2", " ", "-", " ", "5", ")", " ", "/", " ", "2">>
ExPrecedence == <<"2", " ", "+", " ", "3", " ", "*", " ", "4">>
ExParens == <<"(", "2", " ", "+", " ", "3", ")", " ", "*", " ", "4">>
ExUnclosed == <<"(", "2", " ", "+", " ", "3">>
ExExtraParen == <<"2", " ", "+", " ", "3", ")">>
ExTwoNumbers == <<"2", " ", "3">>
ExDivZero == <<"5", " ", "/", " ", "0">>
ExDivZeroParen == <<"5", " ", "/", " ", "(", "3", " ", "-", " ", "3", ")">>
ExAmpersand == <<"2", " ", "&", " ", "3">>
ExSpaced == <<" ", " ", "2", "+", " ", "3", " ">>
ExCompact == <<"2", "+", "3">>

Examples == {ExNested, ExDivChain, ExSubChain, ExNegDividend, ExPrecedence, ExParens, ExUnclosed,
             ExExtraParen, ExTwoNumbers, ExDivZero, ExDivZeroParen, ExAmpersand, ExSpaced, ExCompact}

Literals == {2, 12}
Ops == {"+", "-", "*", "/"}
Num(v) == [op |-> "num", v |-> v]
Bin(o, l, r) == [op |-> o, l |-> l, r |-> r]

\* the expression trees with exactly n operators
RECURSIVE Trees(_)
Trees(n) ==
    IF n = 0 THEN {Num(v) : v \in Literals}
    ELSE UNION {{Bin(o, l, r) : o \in Ops, l \in Trees(k), r \in Trees(n - 1 - k)} :
                k \in 0..(n - 1)}

AllTrees == UNION {Trees(n) : n \in 0..MaxOps}

\* how a tree is written: with or without blanks around its operators, and
\* the tokens typed after it
Variant(st, tr) == [style |-> st, trailer |-> tr]
Variants == {Variant("compact", <<>>), Variant("spaced", <<>>),
             Variant("compact", <<")">>), Variant("spaced", <<" ", "2">>),
             Variant("compact", <<"(">>)}

\* the decimal digits of a non-negative integer
RECURSIVE DigitsOf(_)
DigitChar(d) == CHOOSE c \in Digits : DigitVal(c) = d
DigitsOf(n) ==
    IF n < 10 THEN <<DigitChar(n)>>
    ELSE Append(DigitsOf(n \div 10), DigitChar(n % 10))

\* a tree written by the grammar: a right operand of equal or lower
\* precedence, and a left operand of lower precedence, go in parentheses
RECURSIVE RenderExpr(_, _), RenderTerm(_, _), RenderFactor(_, _)
RenderExpr(t, sp) ==
    IF t.op \in {"+", "-"}
    THEN RenderExpr(t.l, sp) \o sp \o <<t.op>> \o sp \o RenderTerm(t.r, sp)
    ELSE RenderTerm(t, sp)
RenderTerm(t, sp) ==
    IF t.op \in {"*", "/"}
    THEN RenderTerm(t.l, sp) \o sp \o <<t.op>> \o sp \o RenderFactor(t.r, sp)
    ELSE RenderFactor(t, sp)
RenderFactor(t, sp) ==
    IF t.op = "num" THEN DigitsOf(t.v)
    ELSE <<"(">> \o RenderExpr(t, sp) \o <<")">>

\* the trees of the documentation's examples
ExNestedTree ==
    Bin("+", Num(7),
        Bin("*", Num(3),
            Bin("/", Num(10),
                Bin("-", Bin("/", Num(12), Bin("+", Num(3), Num(1))), Num(1)))))
ExDivChainTree == Bin("/", Bin("/", Num(8), Num(4)), Num(2))
ExSubChainTree == Bin("-", Bin("-", Num(2), Num(3)), Num(4))
ExNegDividendTree == Bin("/", Bin("-", Num(2), Num(5)), Num(2))
ExPrecedenceTree == Bin("+", Num(2), Bin("*", Num(3), Num(4)))
ExParensTree == Bin("*", Bin("+", Num(2), Num(3)), Num(4))
ExDivZeroTree == Bin("/", Num(5), Num(0))
ExDivZeroParenTree == Bin("/", Num(5), Bin("-", Num(3), Num(3)))
ExSumTree == Bin("+", Num(2), Num(3))

Case(t, st, tr) == [kind |-> "tree", tree |-> t, style |-> st, trailer |-> tr]
ExampleCases ==
    {Case(t, "spaced", <<>>) :
        t \in {ExNestedTree, ExDivChainTree, ExSubChainTree, ExNegDividendTree,
               ExPrecedenceTree, ExParensTree, ExDivZeroTree, ExDivZeroParenTree}}
    \cup {Case(ExSumTree, "spaced", <<")">>), Case(Num(2), "spaced", <<" ", "3">>)}

Render(t, style) == RenderExpr(t, IF style = "spaced" THEN <<" ">> ELSE <<>>)

(***************************************************************************)
(* main (main.rs 187-202): one action per statement of the loop body.  A   *)
(* panic ends the process: no action is enabled at pc = "panicked".        *)
(***************************************************************************)
Some(v) == [some |-> TRUE, v |-> v]
Nothing == [some |-> FALSE, v |-> 0]
NoLexer == [text |-> String(<<>>), pos |-> 0, current_char |-> None]
NoRet == [call |-> "none", before |-> NoLexer, ok |-> TRUE, token |-> NoToken,
          value |-> 0, err |-> NoError]
FreeText == [kind |-> "text"]

Init ==
    /\ pc = "read_line"
    /\ formula = String(<<>>)
    /\ lexer = NoLexer
    /\ current_token = NoToken
    /\ result = Nothing
    /\ stdout = Nothing
    /\ panic = NoPanic
    /\ ret = NoRet
    /\ src = FreeText

\* read_line: the line as typed, with the newline that ends it; a line cut
\* short by the end of the input (the empty one included) has none
Read(line, from) ==
    /\ formula' = String(line)
    /\ src' = from
    /\ pc' = "create_lexer"
    /\ UNCHANGED <<lexer, current_token, result, stdout, panic, ret>>

ReadLine ==
    /\ pc = "read_line"
    /\ \E line \in Texts \cup Examples, nl \in {<<>>, <<"\n">>} :
        Read(line \o nl, FreeText)

ReadCase(c) == Read(Render(c.tree, c.style) \o c.trailer \o <<"\n">>, c)

ReadExpression ==
    /\ pc = "read_line"
    /\ \/ \E t \in AllTrees, v \in Variants : ReadCase(Case(t, v.style, v.trailer))
       \/ \E c \in ExampleCases : ReadCase(c)

CreateLexer ==
    /\ pc = "create_lexer"
    /\ lexer' = create_lexer(formula)
    /\ pc' = "create_interpreter"
    /\ UNCHANGED <<formula, current_token, result, stdout, panic, ret, src>>

CreateInterpreter ==
    /\ pc = "create_interpreter"
    /\ LET i == create_interpreter(lexer) IN
        /\ lexer' = i.lexer
        /\ current_token' = i.current_token
        /\ panic' = i.panic
        /\ pc' = IF i.panic = NoPanic THEN "expr" ELSE "panicked"
    /\ UNCHANGED <<formula, result, stdout, ret, src>>

\* faulty: a main that panics unless the expression ends the line
ExprExpectingEof ==
    /\ pc = "expr"
    /\ LET r == expr(Interp(lexer, current_token))
           bad == r.panic = NoPanic /\ r.current_token # Tok("Eof") IN
        /\ lexer' = r.lexer
        /\ current_token' = r.current_token
        /\ panic' = IF bad THEN FactorPanic ELSE r.panic
        /\ result' = IF r.panic = NoPanic /\ ~bad THEN Some(r.value) ELSE Nothing
        /\ pc' = IF r.panic = NoPanic /\ ~bad THEN "println" ELSE "panicked"
    /\ UNCHANGED <<formula, stdout, ret, src>>

Expr ==
    /\ pc = "expr"
    /\ LET r == expr(Interp(lexer, current_token)) IN
        /\ lexer' = r.lexer
        /\ current_token' = r.current_token
        /\ panic' = r.panic
        /\ result' = IF r.panic = NoPanic THEN Some(r.value) ELSE Nothing
        /\ pc' = IF r.panic = NoPanic THEN "println" ELSE "panicked"
    /\ UNCHANGED <<formula, stdout, ret, src>>

Println ==
    /\ pc = "println"
    /\ stdout' = result
    /\ pc' = "end_of_body"
    /\ UNCHANGED <<formula, lexer, current_token, result, panic, ret, src>>

\* the end of the loop body: formula, lexer, interpreter and result go out
\* of scope, and the next iteration starts with none of them
LoopBack ==
    /\ pc = "end_of_body"
    /\ pc' = "read_line"
    /\ formula' = String(<<>>)
    /\ lexer' = NoLexer
    /\ current_token' = NoToken
    /\ result' = Nothing
    /\ stdout' = Nothing
    /\ src' = FreeText
    /\ UNCHANGED <<panic, ret>>

MainBody == CreateLexer \/ CreateInterpreter \/ Expr \/ Println \/ LoopBack

\* the calculator fed free text and the documentation's example lines
Next == ReadLine \/ MainBody

Spec == Init /\ [][Next]_vars

\* the calculator fed expressions written out by the grammar
TreeNext == ReadExpression \/ MainBody

TreeSpec == Init /\ [][TreeNext]_vars

(***************************************************************************)
(* The Lexer driven call by call, in any order, on any text.  ret records  *)
(* the call, the Lexer it found and what it returned.                      *)
(***************************************************************************)
Called(name, l, ok, tok, v, e) ==
    [call |-> name, before |-> l, ok |-> ok, token |-> tok, value |-> v, err |-> e]

LexInit ==
    /\ pc = "create_lexer"
    /\ formula = String(<<>>)
    /\ lexer = NoLexer
    /\ current_token = NoToken
    /\ result = Nothing
    /\ stdout = Nothing
    /\ panic = NoPanic
    /\ ret = NoRet
    /\ src = FreeText

LexCreate ==
    /\ pc = "create_lexer"
    /\ \E chars \in LexTexts :
        /\ formula' = String(chars)
        /\ lexer' = create_lexer(String(chars))
    /\ ret' = Called("create_lexer", NoLexer, TRUE, NoToken, 0, NoError)
    /\ pc' = "lexer"
    /\ UNCHANGED <<current_token, result, stdout, panic, src>>

\* advance(); on an empty text a debug build panics at `len() - 1`, after
\* pos += 1 and before current_char is assigned
LexAdvance ==
    /\ pc = "lexer"
    /\ lexer.pos < Len(lexer.text.chars) + MaxOverrun
    /\ ret' = Called("advance", lexer, TRUE, NoToken, 0, NoError)
    /\ \/ /\ lexer' = advance(lexer)
          /\ UNCHANGED <<pc, panic>>
       \/ /\ advance_underflows(lexer)
          /\ lexer' = [lexer EXCEPT !.pos = lexer.pos + 1]
          /\ pc' = "panicked"
          /\ panic' = UnderflowPanic
    /\ UNCHANGED <<formula, current_token, result, stdout, src>>

LexSkipWhitespaces ==
    /\ pc = "lexer"
    /\ lexer' = skip_whitespaces(lexer)
    /\ ret' = Called("skip_whitespaces", lexer, TRUE, NoToken, 0, NoError)
    /\ UNCHANGED <<pc, formula, current_token, result, stdout, panic, src>>

\* integer(); with no digit at the cursor parse() fails and unwrap() panics
LexInteger ==
    /\ pc = "lexer"
    /\ LET r == integer(lexer) IN
        /\ lexer' = r.lexer
        /\ ret' = Called("integer", lexer, r.ok, NoToken, r.value, "none")
        /\ pc' = IF r.ok THEN pc ELSE "panicked"
        /\ panic' = IF r.ok THEN panic ELSE UnwrapPanic
    /\ UNCHANGED <<formula, current_token, result, stdout, src>>

LexGetNextToken ==
    /\ pc = "lexer"
    /\ LET r == get_next_token(lexer) IN
        /\ lexer' = r.lexer
        /\ ret' = Called("get_next_token", lexer, r.ok, r.token, 0, r.err)
    /\ UNCHANGED <<pc, formula, current_token, result, stdout, panic, src>>

LexNext == LexCreate \/ LexAdvance \/ LexSkipWhitespaces \/ LexInteger \/ LexGetNextToken

LexSpec == LexInit /\ [][LexNext]_vars

(***************************************************************************)
(* What the properties speak of.                                           *)
(***************************************************************************)
Evaluated == pc \in {"println", "end_of_body"}
Failed == pc = "panicked"
Settled == Evaluated \/ Failed
FromTree == src.kind = "tree"
Typed(chars) == formula.chars = chars \o <<"\n">>

\* the reference evaluator: the value of a tree, or no value when a
\* division in it has a zero divisor.  IsQuotient says q is n / d rounded
\* toward zero: the remainder is smaller than d and has the sign of n.
IsQuotient(q, n, d) ==
    LET rem == n - q * d IN
    /\ Abs(rem) < Abs(d)
    /\ rem = 0 \/ (rem < 0) = (n < 0)

Quotient(n, d) == CHOOSE q \in (-Abs(n))..Abs(n) : IsQuotient(q, n, d)

RECURSIVE RefEval(_)
RefEval(t) ==
    IF t.op = "num" THEN Some(t.v)
    ELSE LET a == RefEval(t.l)
             b == RefEval(t.r) IN
         IF ~a.some \/ ~b.some THEN Nothing
         ELSE CASE t.op = "+" -> Some(a.v + b.v)
                [] t.op = "-" -> Some(a.v - b.v)
                [] t.op = "*" -> Some(a.v * b.v)
                [] t.op = "/" -> IF b.v = 0 THEN Nothing ELSE Some(Quotient(a.v, b.v))

\* "a op b op c" and "(a - b) / c", with blanks as in the examples, and the
\* trees they are written from
Chain(a, o, b, c) ==
    DigitsOf(a) \o <<" ", o, " ">> \o DigitsOf(b) \o <<" ", o, " ">> \o DigitsOf(c)
DiffOver(a, b, c) ==
    <<"(">> \o DigitsOf(a) \o <<" ", "-", " ">> \o DigitsOf(b) \o <<")", " ", "/", " ">>
        \o DigitsOf(c)
IsNum(t) == t.op = "num"
IsChain(t, o) ==
    /\ t.op = o /\ IsNum(t.r)
    /\ t.l.op = o /\ IsNum(t.l.l) /\ IsNum(t.l.r)
IsDiffOver(t) ==
    /\ t.op = "/" /\ IsNum(t.r)
    /\ t.l.op = "-" /\ IsNum(t.l.l) /\ IsNum(t.l.r)

\* the tokens get_next_token yields for a text, up to and with Eof, or up to
\* the failure (written as the token Err)
RECURSIVE TokensFrom(_)
TokensFrom(l) ==
    LET r == get_next_token(l) IN
    IF ~r.ok THEN <<Tok("Err")>>
    ELSE IF r.token = Tok("Eof") THEN <<r.token>>
    ELSE <<r.token>> \o TokensFrom(r.lexer)

Tokens(chars) == TokensFrom(create_lexer(String(chars)))

\* what one pass of the loop body makes of a line: the panic, or the value
Outcome(chars) ==
    LET i == create_interpreter(create_lexer(String(chars)))
        r == and_then(i, expr) IN
    [panic |-> r.panic, result |-> IF r.panic = NoPanic THEN Some(r.value) ELSE Nothing]

Insert(chars, p, c) == SubSeq(chars, 1, p) \o <<c>> \o SubSeq(chars, p + 1, Len(chars))
Remove(chars, p) == SubSeq(chars, 1, p - 1) \o SubSeq(chars, p + 1, Len(chars))
BetweenDigits(chars, p) ==
    /\ 1 <= p /\ p < Len(chars)
    /\ is_ascii_digit(chars[p]) /\ is_ascii_digit(chars[p + 1])
Blanks == {" ", "nbsp"}

(***************************************************************************)
(* C1.  A well-formed expression over non-negative literals, with no       *)
(* division by zero, evaluates to the value of the reference evaluator, in *)
(* which * and / bind tighter than + and -, parentheses override that and  *)
(* equal precedence groups left to right: "2 + 3 * 4" is 14, "(2 + 3) * 4" *)
(* is 20, "7 + 3 * (10 / (12 / (3 + 1) - 1))" is 22.                       *)
(***************************************************************************)
C1_ExprMatchesReference ==
    /\ (FromTree /\ src.trailer = <<>> /\ Settled /\ RefEval(src.tree).some)
          => (Evaluated /\ result = RefEval(src.tree))
    /\ (Settled /\ Typed(ExPrecedence)) => (Evaluated /\ result = Some(14))
    /\ (Settled /\ Typed(ExParens)) => (Evaluated /\ result = Some(20))
    /\ (Settled /\ Typed(ExNested)) => (Evaluated /\ result = Some(22))

C1_Witness ==
    /\ pc = "end_of_body"
    /\ Typed(ExNested)
    /\ src.tree = ExNestedTree
    /\ stdout = Some(22)

(***************************************************************************)
(* C4.  When a division of the line has a right operand that evaluates to *)
(* 0 ("5 / 0", "5 / (3 - 3)"), the evaluation ends in the division-by-zero *)
(* panic, whatever the left operand, and no number is returned or printed. *)
(***************************************************************************)
C4_DivisionByZeroFails ==
    /\ (FromTree /\ Settled /\ ~RefEval(src.tree).some)
          => (Failed /\ panic = DivPanic /\ result = Nothing /\ stdout = Nothing)
    /\ (Settled /\ (Typed(ExDivZero) \/ Typed(ExDivZeroParen)))
          => (Failed /\ panic = DivPanic /\ result = Nothing /\ stdout = Nothing)

C4_Witness ==
    /\ Failed
    /\ panic = DivPanic
    /\ Typed(ExDivZeroParen)
    /\ src.tree = ExDivZeroParenTree

(***************************************************************************)
(* C6.  term and expr fold left to right and `/` rounds toward zero:       *)
(* "a / b / c" is (a / b) / c, "a - b - c" is (a - b) - c, and "(a - b) /  *)
(* c" with a negative a - b is rounded toward zero, not down; "8 / 4 / 2"  *)
(* is 1, "2 - 3 - 4" is -5 and "(2 - 5) / 2" is -1.                        *)
(***************************************************************************)
C6_LeftFoldTruncatingDivision ==
    /\ (FromTree /\ Settled /\ src.style = "spaced" /\ src.trailer = <<>>) =>
        LET t == src.tree IN
        /\ IsChain(t, "-") =>
              /\ Typed(Chain(t.l.l.v, "-", t.l.r.v, t.r.v))
              /\ Evaluated
              /\ result = Some((t.l.l.v - t.l.r.v) - t.r.v)
        /\ (IsChain(t, "/") /\ t.l.r.v # 0 /\ t.r.v # 0) =>
              /\ Typed(Chain(t.l.l.v, "/", t.l.r.v, t.r.v))
              /\ Evaluated
              /\ result = Some((t.l.l.v \div t.l.r.v) \div t.r.v)
        /\ (IsDiffOver(t) /\ t.r.v # 0) =>
              /\ Typed(DiffOver(t.l.l.v, t.l.r.v, t.r.v))
              /\ Evaluated
              /\ IsQuotient(result.v, t.l.l.v - t.l.r.v, t.r.v)
    /\ (Settled /\ Typed(ExDivChain)) => (Evaluated /\ result = Some(1))
    /\ (Settled /\ Typed(ExSubChain)) => (Evaluated /\ result = Some(-5))
    /\ (Settled /\ Typed(ExNegDividend)) => (Evaluated /\ result = Some(-1))

C6_Witness ==
    /\ pc = "end_of_body"
    /\ Typed(DiffOver(2, 12, 12))
    /\ src.tree = Bin("/", Bin("-", Num(2), Num(12)), Num(12))
    /\ stdout = Some(0)

(***************************************************************************)
(* C10.  main does not look at the token that follows the expression: a    *)
(* complete expression followed by tokens that cannot continue it ("2 +    *)
(* 3)", "2 3") evaluates to the value of the expression, and what follows  *)
(* is ignored.                                                             *)
(***************************************************************************)
C10_TrailingTokensIgnored ==
    /\ (FromTree /\ src.trailer # <<>> /\ Settled /\ RefEval(src.tree).some)
          => (Evaluated /\ result = RefEval(src.tree))
    /\ (Settled /\ Typed(ExExtraParen)) => (Evaluated /\ result = Some(5))
    /\ (Settled /\ Typed(ExTwoNumbers)) => (Evaluated /\ result = Some(2))

C10_Witness ==
    /\ pc = "end_of_body"
    /\ Typed(ExExtraParen)
    /\ src.trailer = <<")">>
    /\ stdout = Some(5)

(***************************************************************************)
(* C7.  Once the text is exhausted (current_char is None), get_next_token  *)
(* returns Eof without an error and leaves pos and current_char as they    *)
(* were, at every call.                                                    *)
(***************************************************************************)
C7_EofIsSticky ==
    (ret.call = "get_next_token" /\ ret.before.current_char = None)
        => (ret.ok /\ ret.token = Tok("Eof") /\ lexer = ret.before)

C7_Witness ==
    /\ ret.call = "get_next_token"
    /\ ret.before.current_char = None
    /\ ret.before.pos = MaxLexLen
    /\ ret.token = Tok("Eof")
    /\ lexer.pos = MaxLexLen

(***************************************************************************)
(* C9.  In every state of the Lexer, current_char is the character of text *)
(* at index pos, and it is None exactly when pos is at or past the end of  *)
(* the text (counted in characters).                                       *)
(***************************************************************************)
C9_CurrentCharIsTextAtPos ==
    /\ lexer.pos < Len(lexer.text.chars)
          => lexer.current_char = lexer.text.chars[lexer.pos + 1]
    /\ lexer.current_char = None <=> lexer.pos >= Len(lexer.text.chars)

C9_Witness ==
    /\ pc = "lexer"
    /\ ret.call = "advance"
    /\ lexer.text.len > Len(lexer.text.chars)
    /\ lexer.pos = Len(lexer.text.chars)
    /\ lexer.current_char = None

(***************************************************************************)
(* C2.  A left parenthesis must be closed: when the token after the inner  *)
(* expression is not a right parenthesis the evaluation fails and returns  *)
(* no value.  So a line that starts with "(" and holds no ")" at all, such *)
(* as "(2 + 3", never yields a number.                                     *)
(***************************************************************************)
C2_UnclosedParenFails ==
    (Settled /\ Len(formula.chars) > 0 /\ formula.chars[1] = "("
       /\ \A p \in 1..Len(formula.chars) : formula.chars[p] # ")")
        => (Failed /\ result = Nothing)

(***************************************************************************)
(* C3.  A failure on one line never ends the loop: main is still running   *)
(* after any sequence of lines.                                            *)
(***************************************************************************)
C3_LoopSurvivesFailures == ~Failed

(***************************************************************************)
(* C5.  When get_next_token meets, after the whitespace, a character that  *)
(* is no digit and none of + - * / ( ), it fails with an InvalidCharacter  *)
(* error that names the character and its position.                        *)
(***************************************************************************)
C5_InvalidCharacterIsNamed ==
    (ret.call = "get_next_token" /\ ~ret.ok)
        => ret.err = [kind |-> "InvalidCharacter",
                      ch |-> lexer.current_char, pos |-> lexer.pos]

(***************************************************************************)
(* C8.  Whitespace is never a token.  As amended: putting a whitespace     *)
(* character before the first token, after the last or between two tokens, *)
(* anywhere but between two digits, leaves the tokens and the outcome of   *)
(* the line unchanged (and so does taking one away, unless that brings two *)
(* digits together); "  2+ 3 " and "2+3" evaluate alike.                   *)
(***************************************************************************)
C8_WhitespaceInsensitive ==
    /\ Settled =>
        LET toks == Tokens(formula.chars)
            out == [panic |-> panic, result |-> result] IN
        \A p \in 0..Len(formula.chars) :
            ~BetweenDigits(formula.chars, p) =>
                \A w \in Blanks :
                    /\ Tokens(Insert(formula.chars, p, w)) = toks
                    /\ Outcome(Insert(formula.chars, p, w)) = out
    /\ (Settled /\ Typed(ExSpaced))
          => [panic |-> panic, result |-> result] = Outcome(ExCompact)

C8_Witness ==
    /\ pc = "end_of_body"
    /\ Typed(ExSpaced)
    /\ stdout = Some(5)
    /\ Tokens(ExCompact) = Tokens(formula.chars)

\* C8 as first stated: taking away the whitespace between two tokens, any
\* two, leaves the tokens unchanged
C8_AnyWhitespaceRemovable ==
    Settled =>
        \A p \in 1..Len(formula.chars) :
            is_whitespace(formula.chars[p])
                => Tokens(Remove(formula.chars, p)) = Tokens(formula.chars)

====
